---------------------------- MODULE Spec2Model ----------------------------
(***************************************************************************)
(* Wiki routes for persons and characters: the PATCH /persons/:personID    *)
(* edit handler (transactional load / check / mutate / save / revision),   *)
(* the GET /persons/:personID wiki-info handler, the generic relation      *)
(* history-summary route (createRelationHistoryRoute) and the four         *)
(* revision-detail routes.                                                 *)
(*                                                                         *)
(* JavaScript values are modelled as follows: an object is a function from *)
(* its keys (strings) to values, so an optional key is a key that may be   *)
(* missing from DOMAIN; a numeric string "7" is <<"str", 7>>; a message    *)
(* `revision ${id}` is <<"revision", id>>.                                 *)
(***************************************************************************)
EXTENDS Integers, Sequences, FiniteSets, TLC

(***************************************************************************)
(* Bounds of the model.                                                    *)
(***************************************************************************)
MaxReqs == 2        \* PATCH requests received in one behaviour
MaxRevs == 2        \* revisions committed by the external edit paths

(***************************************************************************)
(* Values.                                                                 *)
(***************************************************************************)
Fields == {"name", "infobox", "summary"}     \* PersonEdit's properties
Vals == {"A", "B"}                           \* field contents
Editors == {1, 2}                            \* concurrent PATCH requests
PersonIDs == {1, 2}                          \* person 1 has a row, 2 has none

EmptyMap == [f \in {} |-> "A"]

\* t.Partial(PersonEdit): every subset of the properties may be present.
PartialEdits == UNION {[D -> Vals] : D \in SUBSET Fields}
\* The partial edits with at most one property present.
SmallEdits == UNION {[D -> Vals] : D \in {{}} \cup {{f} : f \in Fields}}

RevType ==
  [personEdit |-> "personEdit",
   characterSubjectRelation |-> "characterSubjectRelation",
   characterCastRelation |-> "characterCastRelation",
   personSubjectRelation |-> "personSubjectRelation",
   personCastRelation |-> "personCastRelation"]

NoPerson == [id |-> 0]
NoReq == [id |-> 0]
NoError == [kind |-> "none"]
NoRev == [revId |-> 0]
NoOwner == 0

VARIABLES
  persons,      \* person table: id -> committed row
  revHistory,   \* chii_rev_history: set of committed rows
  revText,      \* chii_rev_text: revTextId -> committed blob
  nextRevId,    \* auto-increment of chii_rev_history
  nextTextId,   \* auto-increment of chii_rev_text
  rowLock,      \* person id -> transaction holding the row's write lock
  pc,           \* editor -> step of its PATCH handler
  req,          \* editor -> the request it is handling
  p,            \* editor -> the entity object `p` of the handler
  snapshot,     \* editor -> the row as its transaction read it
  txWrite,      \* editor -> columns its transaction has updated, uncommitted
  txRev,        \* editor -> revision its transaction has inserted, uncommitted
  err,          \* editor -> the error the request failed with
  nextReq,      \* number of the next PATCH request
  persisted,    \* requests whose update of the person row is committed
  rpc,          \* reader: step of its GET handler
  rreq,         \* reader: the request it is handling
  rloc,         \* reader: the handler's local bindings, by name
  rresp         \* reader: the response

storeVars == <<persons, revHistory, revText, nextRevId, nextTextId>>
txVars == <<rowLock, pc, req, p, snapshot, txWrite, txRev, err, nextReq, persisted>>
readVars == <<rpc, rreq, rloc, rresp>>
vars == <<storeVars, txVars, readVars>>

(***************************************************************************)
(* PATCH /persons/:personID                                                *)
(***************************************************************************)

\* Schema of the body: expectedRevision defaults to {}.
BodyDefaults(body) ==
  IF "expectedRevision" \in DOMAIN body
    THEN body
    ELSE body @@ [expectedRevision |-> EmptyMap]

\* What a client may send as expectedRevision (the key may be left out) and
\* as person.
SentExpected(edits) == {EmptyMap} \cup {[expectedRevision |-> x] : x \in edits}
SentPerson(edits) == {[person |-> i] : i \in edits}

\* matchExpected(expected, current): the fields present in `expected` whose
\* value differs from `current`, each with the expected and the current value.
matchExpected(expected, current) ==
  {<<f, expected[f], current[f]>> :
     f \in {g \in DOMAIN expected \cap DOMAIN current : expected[g] # current[g]}}

WikiChangedError(diff) == [kind |-> "WikiChangedError", diff |-> diff]
NotAllowedError(msg) == [kind |-> "NotAllowedError", message |-> msg]
NotFoundError(msg) == [kind |-> "NotFoundError", message |-> msg]
LockedError == [kind |-> "LockedError"]
\* A statement of the transaction fails in the database.
DbError(at) == [kind |-> "QueryFailedError", at |-> at]

\* The literal with two of its properties crossed.
CurrentFieldsCrossed(q) == [name |-> q.name, infobox |-> q.summary, summary |-> q.infobox]

\* The object literal handed to matchExpected.
CurrentFields(q) == [name |-> q.name, infobox |-> q.infobox, summary |-> q.summary]

\* input.f ?? p.f
Coalesce(input, f, old) == IF f \in DOMAIN input THEN input[f] ELSE old

\* The steps with the lock and expected-revision checks moved behind the save.
NextStepSaveFirst(s) ==
  CASE s = "auth" -> "load"
    [] s = "load" -> "mutate"
    [] s = "mutate" -> "save"
    [] s = "save" -> "lock"
    [] s = "lock" -> "match"
    [] s = "match" -> "revision"
    [] s = "revision" -> "commit"
    [] s = "commit" -> "done"

\* The steps with the mutation applied before the expected-revision check.
NextStepMutateFirst(s) ==
  CASE s = "auth" -> "load"
    [] s = "load" -> "lock"
    [] s = "lock" -> "mutate"
    [] s = "mutate" -> "match"
    [] s = "match" -> "save"
    [] s = "save" -> "revision"
    [] s = "revision" -> "commit"
    [] s = "commit" -> "done"

\* The order of the handler's steps.
NextStep(s) ==
  CASE s = "auth" -> "load"
    [] s = "load" -> "lock"
    [] s = "lock" -> "match"
    [] s = "match" -> "mutate"
    [] s = "mutate" -> "save"
    [] s = "save" -> "revision"
    [] s = "revision" -> "commit"
    [] s = "commit" -> "done"

\* A request arrives; requireLogin has passed and the body has been validated.
\* `raw` is the body as sent and `body` the validated one. The fields
\* expectedRevision and person are drawn where the handler first reads them:
\* no earlier step depends on them, so the behaviours are those of a body
\* fixed on arrival.
Start(e) ==
  /\ pc[e] = "idle"
  /\ nextReq <= MaxReqs
  /\ \E perm \in BOOLEAN, id \in PersonIDs :
       req' = [req EXCEPT ![e] =
                 [id |-> nextReq,
                  auth |-> [userID |-> e, permission |-> [mono_edit |-> perm]],
                  params |-> [personID |-> id],
                  raw |-> [commitMessage |-> nextReq],
                  body |-> BodyDefaults([commitMessage |-> nextReq])]]
  /\ nextReq' = nextReq + 1
  /\ pc' = [pc EXCEPT ![e] = "auth"]
  /\ UNCHANGED <<persons, revHistory, revText, nextRevId, nextTextId, rowLock,
                 p, snapshot, txWrite, txRev, err, persisted>>

\* A throw: the transaction callback rejects, the transaction is rolled back
\* (its writes are dropped and its row lock released) and the request fails.
Throw(e, error) ==
  /\ pc' = [pc EXCEPT ![e] = "failed"]
  /\ err' = [err EXCEPT ![e] = error]
  /\ txWrite' = [txWrite EXCEPT ![e] = EmptyMap]
  /\ txRev' = [txRev EXCEPT ![e] = NoRev]
  /\ rowLock' = [i \in DOMAIN rowLock |->
                   IF rowLock[i] = e THEN NoOwner ELSE rowLock[i]]

\* if (!auth.permission.mono_edit) throw; then the transaction begins.
Auth(e) ==
  /\ pc[e] = "auth"
  /\ IF ~req[e].auth.permission.mono_edit
       THEN Throw(e, NotAllowedError("edit person"))
       ELSE /\ pc' = [pc EXCEPT ![e] = NextStep("auth")]
            /\ UNCHANGED <<err, txWrite, txRev, rowLock>>
  /\ UNCHANGED <<persons, revHistory, revText, nextRevId, nextTextId,
                 req, p, snapshot, nextReq, persisted>>

\* findOneBy that looks at the id alone.
FindOneById(where) ==
  IF where.id \in DOMAIN persons THEN persons[where.id] ELSE NoPerson

\* PersonRepo.findOneBy(where): the committed row whose columns equal those
\* of `where`, or null. It is a plain read and takes no lock.
FindOneBy(where) ==
  LET found == {i \in DOMAIN persons : \A k \in DOMAIN where : persons[i][k] = where[k]}
  IN IF found = {} THEN NoPerson ELSE persons[CHOOSE i \in found : TRUE]

\* PersonRepo.findOneBy({ id: personID }) in the transaction, then the
\* not-found check.
Load(e) ==
  /\ pc[e] = "load"
  /\ LET id == req[e].params.personID
         q == FindOneBy([id |-> id])
     IN IF q # NoPerson
         THEN /\ p' = [p EXCEPT ![e] = q]
              /\ snapshot' = [snapshot EXCEPT ![e] = q]
              /\ pc' = [pc EXCEPT ![e] = NextStep("load")]
              /\ UNCHANGED <<err, txWrite, txRev, rowLock>>
         ELSE /\ Throw(e, NotFoundError(<<"person", id>>))
              /\ UNCHANGED <<p, snapshot>>
  /\ UNCHANGED <<persons, revHistory, revText, nextRevId, nextTextId,
                 req, nextReq, persisted>>

\* if (p.lock || p.redirect) throw new LockedError()
CheckLock(e) ==
  /\ pc[e] = "lock"
  /\ IF p[e].lock # 0 \/ p[e].redirect # 0
       THEN Throw(e, LockedError)
       ELSE /\ pc' = [pc EXCEPT ![e] = NextStep("lock")]
            /\ UNCHANGED <<err, txWrite, txRev, rowLock>>
  /\ UNCHANGED <<persons, revHistory, revText, nextRevId, nextTextId,
                 req, p, snapshot, nextReq, persisted>>

\* matchExpected(expectedRevision, { name, infobox, summary })
MatchExpected(e, edits) ==
  /\ pc[e] = "match"
  /\ \E sent \in SentExpected(edits) :
       LET raw == req[e].raw @@ sent
           body == BodyDefaults(raw)
           diff == matchExpected(body.expectedRevision, CurrentFields(p[e]))
       IN /\ req' = [req EXCEPT ![e].raw = raw, ![e].body = body]
          /\ IF diff # {}
               THEN Throw(e, WikiChangedError(diff))
               ELSE /\ pc' = [pc EXCEPT ![e] = NextStep("match")]
                    /\ UNCHANGED <<err, txWrite, txRev, rowLock>>
  /\ UNCHANGED <<persons, revHistory, revText, nextRevId, nextTextId,
                 p, snapshot, nextReq, persisted>>

\* p.infobox = input.infobox ?? p.infobox; likewise name and summary.
Mutate(e, edits) ==
  /\ pc[e] = "mutate"
  /\ \E sent \in SentPerson(edits) :
       LET raw == req[e].raw @@ sent
           body == BodyDefaults(raw)
           input == body.person
       IN /\ req' = [req EXCEPT ![e].raw = raw, ![e].body = body]
          /\ p' = [p EXCEPT ![e] =
                     [@ EXCEPT !.infobox = Coalesce(input, "infobox", @),
                               !.name = Coalesce(input, "name", @),
                               !.summary = Coalesce(input, "summary", @)]]
  /\ pc' = [pc EXCEPT ![e] = NextStep("mutate")]
  /\ UNCHANGED <<persons, revHistory, revText, nextRevId, nextTextId, rowLock,
                 snapshot, txWrite, txRev, err, nextReq, persisted>>

\* The columns PersonRepo.save(p) updates. The ORM either writes the three
\* edited columns of the entity or only those that differ from the row its
\* transaction read; the handler does not choose, so both are outcomes.
SaveColumns(e) ==
  {[f \in Fields |-> p[e][f]],
   [f \in {g \in Fields : p[e][g] # snapshot[e][g]} |-> p[e][f]]}

\* await PersonRepo.save(p), PersonRepo being the transaction's repository:
\* the UPDATE takes the row's write lock (it waits while another transaction
\* holds it) and stays uncommitted until the transaction commits.
SaveInTransaction(e) ==
  /\ pc[e] = "save"
  /\ LET id == req[e].params.personID IN
       \/ /\ \E cols \in SaveColumns(e) :
               /\ cols # EmptyMap => rowLock[id] \in {NoOwner, e}
               /\ txWrite' = [txWrite EXCEPT ![e] = cols]
               /\ rowLock' = IF cols # EmptyMap
                               THEN [rowLock EXCEPT ![id] = e]
                               ELSE rowLock
          /\ pc' = [pc EXCEPT ![e] = NextStep("save")]
          /\ UNCHANGED <<err, txRev>>
       \/ Throw(e, DbError("save"))
  /\ UNCHANGED <<persons, revHistory, revText, nextRevId, nextTextId,
                 req, p, snapshot, nextReq, persisted>>

\* The same save through a repository that is not the transaction's: the
\* UPDATE is committed on its own.
SaveAutocommit(e) ==
  /\ pc[e] = "save"
  /\ LET id == req[e].params.personID IN
       \/ /\ \E cols \in SaveColumns(e) :
               /\ cols # EmptyMap => rowLock[id] \in {NoOwner, e}
               /\ persons' = [persons EXCEPT ![id] =
                                [f \in DOMAIN @ |->
                                   IF f \in DOMAIN cols THEN cols[f] ELSE @[f]]]
          /\ persisted' = persisted \cup {req[e].id}
          /\ pc' = [pc EXCEPT ![e] = NextStep("save")]
          /\ UNCHANGED <<err, txRev, txWrite, rowLock>>
       \/ /\ Throw(e, DbError("save"))
          /\ UNCHANGED <<persons, persisted>>
  /\ UNCHANGED <<revHistory, revText, nextRevId, nextTextId,
                 req, p, snapshot, nextReq>>

Save(e) == SaveInTransaction(e)

\* The rev object handed to createRevision.
PersonRev(q) ==
  [crt_name |-> q.name, crt_infobox |-> q.infobox, crt_summary |-> q.summary,
   extra |-> [img |-> q.img]]

\* createRevision(t, { mid, type, rev, creator, comment }): one row of
\* chii_rev_text holding the rev and one row of chii_rev_history pointing
\* at it, both inserted in transaction t. The ids come from the tables'
\* auto-increment counters, which a rollback does not give back.
\* RevText.serialize and RevText.deserialize: the blob column holds the
\* record in its compressed serialized form.
serialize(record) == <<"deflate", record>>

deserialize(blob) == blob[2]

RevisionRows(rid, tid, arg) ==
  [revId |-> rid,
   history |-> [revId |-> rid, revMid |-> arg.mid, revType |-> arg.type,
                revCreator |-> arg.creator, revEditSummary |-> arg.comment,
                revTextId |-> tid, createdAt |-> rid],
   text |-> [revTextId |-> tid, revText |-> serialize(arg.rev)]]

CreateRevision(e) ==
  /\ pc[e] = "revision"
  /\ \/ /\ txRev' = [txRev EXCEPT ![e] =
                       RevisionRows(nextRevId, nextTextId,
                         [mid |-> req[e].params.personID,
                          type |-> RevType.personEdit,
                          rev |-> PersonRev(p[e]),
                          creator |-> req[e].auth.userID,
                          comment |-> req[e].body.commitMessage])]
        /\ nextRevId' = nextRevId + 1
        /\ nextTextId' = nextTextId + 1
        /\ pc' = [pc EXCEPT ![e] = NextStep("revision")]
        /\ UNCHANGED <<err, txWrite, rowLock>>
     \/ /\ Throw(e, DbError("createRevision"))
        /\ UNCHANGED <<nextRevId, nextTextId>>
  /\ UNCHANGED <<persons, revHistory, revText, req, p, snapshot, nextReq, persisted>>

\* The transaction callback returned: COMMIT. The transaction's update of
\* the person row and its revision rows become visible together and the
\* row lock is released; the handler returns {}.
Commit(e) ==
  /\ pc[e] = "commit"
  /\ LET id == req[e].params.personID IN
       /\ persons' = [persons EXCEPT ![id] =
                        [f \in DOMAIN @ |->
                           IF f \in DOMAIN txWrite[e] THEN txWrite[e][f] ELSE @[f]]]
       /\ revHistory' = revHistory \cup {txRev[e].history}
       /\ revText' = revText @@ (txRev[e].text.revTextId :> txRev[e].text.revText)
       /\ rowLock' = [i \in DOMAIN rowLock |->
                        IF rowLock[i] = e THEN NoOwner ELSE rowLock[i]]
       /\ persisted' = persisted \cup {req[e].id}
  /\ txWrite' = [txWrite EXCEPT ![e] = EmptyMap]
  /\ txRev' = [txRev EXCEPT ![e] = NoRev]
  /\ pc' = [pc EXCEPT ![e] = NextStep("commit")]
  /\ UNCHANGED <<nextRevId, nextTextId, req, p, snapshot, err, nextReq>>

\* The response (200 {} or the error) has been sent.
Finish(e) ==
  /\ pc[e] \in {"done", "failed"}
  /\ pc' = [pc EXCEPT ![e] = "idle"]
  /\ req' = [req EXCEPT ![e] = NoReq]
  /\ p' = [p EXCEPT ![e] = NoPerson]
  /\ snapshot' = [snapshot EXCEPT ![e] = NoPerson]
  /\ err' = [err EXCEPT ![e] = NoError]
  /\ UNCHANGED <<persons, revHistory, revText, nextRevId, nextTextId, rowLock,
                 txWrite, txRev, nextReq, persisted>>

\* One step of the PATCH handler of editor e, its bodies drawn from `edits`.
Patch(e, edits) ==
  /\ \/ Start(e)
     \/ Auth(e)
     \/ Load(e)
     \/ CheckLock(e)
     \/ MatchExpected(e, edits)
     \/ Mutate(e, edits)
     \/ Save(e)
     \/ CreateRevision(e)
     \/ Commit(e)
     \/ Finish(e)
  /\ UNCHANGED readVars

(***************************************************************************)
(* Read-only routes. One reader handles one GET request at a time; the     *)
(* edit paths of the other services commit relation revisions meanwhile.   *)
(***************************************************************************)

\* Path and query values arrive as text; the schema coerces integer text.
IntegerText ==
  ("-1" :> -1) @@ ("0" :> 0) @@ ("1" :> 1) @@ ("2" :> 2) @@ ("3" :> 3)
    @@ ("4" :> 4) @@ ("101" :> 101)
OtherText == {"abc", "1.5"}
Undefined == "undefined"

\* String(n), as in the property key revRecord[revisionID].
IdText(n) == CHOOSE s \in DOMAIN IntegerText : IntegerText[s] = n

\* Unary plus on a string or on undefined.
NaN == [nan |-> TRUE, n |-> 0]
ToNumber(s) ==
  IF s \in DOMAIN IntegerText THEN [nan |-> FALSE, n |-> IntegerText[s]] ELSE NaN

NoRequest == [kind |-> "none"]
NoResponse == [kind |-> "none"]
Ok(body) == [kind |-> "ok", body |-> body]
Failed(error) == [kind |-> "error", error |-> error]
ValidationError(what) == [kind |-> "ValidationError", message |-> what]
TypeError(what) == [kind |-> "TypeError", message |-> what]

Min(a, b) == IF a <= b THEN a ELSE b
Max(a, b) == IF a >= b THEN a ELSE b

\* The reader's request is over: back to idle.
RFinish ==
  /\ rpc \in {"done", "failed"}
  /\ rpc' = "idle"
  /\ rreq' = NoRequest
  /\ rloc' = EmptyMap
  /\ rresp' = NoResponse
  /\ UNCHANGED <<storeVars, txVars>>

\* A revision of a relation committed by another edit path: one row of
\* chii_rev_history and the chii_rev_text row it points at, whose blob maps
\* revision ids to the revision's facts.
ExternalCommit(edits) ==
  /\ nextRevId <= MaxRevs
  /\ \E ed \in edits :
       /\ revHistory' = revHistory \cup
            {[revId |-> nextRevId, revMid |-> ed.mid, revType |-> ed.type,
              revCreator |-> ed.creator, revEditSummary |-> 0,
              revTextId |-> nextTextId, createdAt |-> nextRevId]}
       /\ revText' = revText @@
            (nextTextId :> serialize(IF ed.keyed THEN (IdText(nextRevId) :> ed.facts)
                                                 ELSE EmptyMap))
  /\ nextRevId' = nextRevId + 1
  /\ nextTextId' = nextTextId + 1
  /\ UNCHANGED <<persons, txVars, readVars>>

(***************************************************************************)
(* GET .../history-summary (createRelationHistoryRoute)                    *)
(***************************************************************************)
MinId == 1
MinLimit == 1
MaxLimit == 100
DefaultLimit == 20
MinOffset == 0
DefaultOffset == 0

\* The four instances of createRelationHistoryRoute.
HistoryRoutes ==
  {[operationId |-> "CharacterSubjectHistorySummary", idName |-> "characterID",
    revTypes |-> {RevType.characterSubjectRelation}],
   [operationId |-> "personCastHistorySummary", idName |-> "characterID",
    revTypes |-> {RevType.characterCastRelation}],
   [operationId |-> "personSubjectHistorySummary", idName |-> "personID",
    revTypes |-> {RevType.personSubjectRelation}],
   [operationId |-> "personCharacterHistorySummary", idName |-> "personID",
    revTypes |-> {RevType.personCastRelation}]}

\* Users with a record; fetchSlimUsersByIDs leaves the others out.
UserTable == (1 :> [id |-> 1, username |-> "user-1"])
fetchSlimUsersByIDs(ids) == [i \in ids \cap DOMAIN UserTable |-> UserTable[i]]

\* ghostUser(id): the placeholder for a user without a record.
GhostNames == (1 :> "ghost-1") @@ (2 :> "ghost-2")
ghostUser(id) == [id |-> id, username |-> GhostNames[id]]

\* paramsSchema with a minimum of 0.
ValidParamsFromZero(route, params) ==
  /\ params[route.idName] \in DOMAIN IntegerText
  /\ IntegerText[params[route.idName]] >= 0

\* paramsSchema: { [idName]: t.Integer({ minimum: 1 }) }
ValidParams(route, params) ==
  /\ params[route.idName] \in DOMAIN IntegerText
  /\ IntegerText[params[route.idName]] >= MinId

\* querystring: limit, an optional integer in 1..100; offset, an optional
\* integer >= 0.
ValidQuery(query) ==
  /\ "limit" \in DOMAIN query =>
       /\ query.limit \in DOMAIN IntegerText
       /\ IntegerText[query.limit] >= MinLimit
       /\ IntegerText[query.limit] <= MaxLimit
  /\ "offset" \in DOMAIN query =>
       /\ query.offset \in DOMAIN IntegerText
       /\ IntegerText[query.offset] >= MinOffset

\* The values after the schema's coercion; text that is no integer stays text.
Coerce(obj) ==
  [k \in DOMAIN obj |->
     IF obj[k] \in DOMAIN IntegerText THEN ToNumber(obj[k]) ELSE [nan |-> TRUE, n |-> 0]]

\* query: { limit = 20, offset = 0 }
QueryDefaults(query) ==
  [limit |-> IF "limit" \in DOMAIN query THEN query.limit.n ELSE DefaultLimit,
   offset |-> IF "offset" \in DOMAIN query THEN query.offset.n ELSE DefaultOffset]

\* where revMid = targetId and revType in revTypes, without the type filter.
WhereTargetOnly(rows, targetId, revTypes) ==
  {r \in rows : r.revMid = targetId}

\* where revMid = targetId and revType in revTypes
WhereTarget(rows, targetId, revTypes) ==
  {r \in rows : r.revMid = targetId /\ r.revType \in revTypes}

\* countDistinct(revId)
CountDistinctRevId(rows) == Cardinality({r.revId : r \in rows})

\* The rows in the order of their revId, descending or ascending.
RECURSIVE SortByRevId(_, _)
SortByRevId(rows, descending) ==
  IF rows = {} THEN <<>>
  ELSE LET first == CHOOSE r \in rows : \A q \in rows :
                      IF descending THEN r.revId >= q.revId ELSE r.revId <= q.revId
       IN <<first>> \o SortByRevId(rows \ {first}, descending)

\* orderBy(asc(revId))
OrderByAsc(rows) == SortByRevId(rows, FALSE)

\* orderBy(desc(revId))
OrderBy(rows) == SortByRevId(rows, TRUE)

\* .offset(offset).limit(limit)
OffsetLimit(seq, offset, limit) ==
  SubSeq(seq, offset + 1, Min(Len(seq), offset + limit))

\* The username without the ghost-user fallback.
UsernameOrEmpty(users, creator) ==
  IF creator \in DOMAIN users THEN users[creator].username ELSE ""

\* users[x.revCreator]?.username ?? ghostUser(x.revCreator).username
Username(users, creator) ==
  IF creator \in DOMAIN users
    THEN users[creator].username
    ELSE ghostUser(creator).username

\* history.map(...)
RelationHistorySummary(x, users) ==
  [id |-> x.revId,
   creator |-> [username |-> Username(users, x.revCreator)],
   createdAt |-> x.createdAt,
   commitMessage |-> x.revEditSummary]

\* A history-summary request arrives.
HistoryStart ==
  /\ rpc = "idle"
  /\ \E route \in HistoryRoutes,
        id \in {"-1", "0", "1", "2"} \cup OtherText,
        query \in {EmptyMap} \cup {[limit |-> l] : l \in {"0", "1", "2", "101"}}
                    \cup {[offset |-> o] : o \in {"-1", "1", "2", "3"}}
                    \cup {[limit |-> l, offset |-> o] : l \in {"1", "2"}, o \in {"1", "2", "3"}} :
       rreq' = [kind |-> "history", route |-> route,
                raw |-> (route.idName :> id),
                params |-> EmptyMap, query |-> query]
  /\ rpc' = "validate"
  /\ UNCHANGED <<storeVars, txVars, rloc, rresp>>

\* The route's schema is applied to the request before the handler runs.
HistoryValidate ==
  /\ rpc = "validate"
  /\ rreq.kind = "history"
  /\ IF ValidParams(rreq.route, rreq.raw) /\ ValidQuery(rreq.query)
       THEN /\ rreq' = [rreq EXCEPT !.params = Coerce(rreq.raw),
                                    !.query = Coerce(rreq.query)]
            /\ rpc' = "count"
            /\ UNCHANGED rresp
       ELSE /\ rresp' = Failed(ValidationError("schema"))
            /\ rpc' = "failed"
            /\ UNCHANGED rreq
  /\ UNCHANGED <<storeVars, txVars, rloc>>

\* The handler: the typeof check, then the count query.
HistoryCount ==
  /\ rpc = "count"
  /\ LET targetId == rreq.params[rreq.route.idName] IN
       IF targetId.nan
         THEN /\ rresp' = Failed(TypeError(rreq.route.idName))
              /\ rpc' = "failed"
              /\ UNCHANGED rloc
         ELSE /\ rloc' = [targetId |-> targetId.n,
                          limit |-> QueryDefaults(rreq.query).limit,
                          offset |-> QueryDefaults(rreq.query).offset,
                          count |-> CountDistinctRevId(
                                      WhereTarget(revHistory, targetId.n,
                                                  rreq.route.revTypes))]
              /\ rpc' = "select"
              /\ UNCHANGED rresp
  /\ UNCHANGED <<storeVars, txVars, rreq>>

\* The page query.
HistorySelect ==
  /\ rpc = "select"
  /\ rloc' = rloc @@
       [history |->
          OffsetLimit(
            OrderBy(WhereTarget(revHistory, rloc.targetId, rreq.route.revTypes)),
            rloc.offset, rloc.limit)]
  /\ rpc' = "users"
  /\ UNCHANGED <<storeVars, txVars, rreq, rresp>>

\* The bulk user lookup, the mapping of the rows and the response.
HistoryRespond ==
  /\ rpc = "users"
  /\ LET users == fetchSlimUsersByIDs({rloc.history[i].revCreator :
                                         i \in 1..Len(rloc.history)})
         revisions == [i \in 1..Len(rloc.history) |->
                         RelationHistorySummary(rloc.history[i], users)]
     IN /\ rloc' = rloc @@ [users |-> users]
        /\ rresp' = Ok([total |-> rloc.count, data |-> revisions])
  /\ rpc' = "done"
  /\ UNCHANGED <<storeVars, txVars, rreq>>

History == HistoryStart \/ HistoryValidate \/ HistoryCount \/ HistorySelect \/ HistoryRespond

(***************************************************************************)
(* GET .../revisions/:revisionID (the four revision-detail routes)         *)
(***************************************************************************)

\* The four handlers differ in the second field they read from a fact, the
\* response key it goes to, and the name fetcher they call for it.
DetailRoutes ==
  {[operationId |-> "getCharacterSubjectRevision", field |-> "crt_type",
    key |-> "characterType", nameKey |-> "", names |-> "none"],
   [operationId |-> "getCharacterPersonRevision", field |-> "prsn_id",
    key |-> "personId", nameKey |-> "personName", names |-> "persons"],
   [operationId |-> "getPersonSubjectRevision", field |-> "position",
    key |-> "position", nameKey |-> "", names |-> "none"],
   [operationId |-> "getPersonCharacterRevision", field |-> "crt_id",
    key |-> "characterId", nameKey |-> "characterName", names |-> "characters"]}

\* The second field of a fact of each relation type.
FactField ==
  (RevType.characterSubjectRelation :> "crt_type")
    @@ (RevType.characterCastRelation :> "prsn_id")
    @@ (RevType.personSubjectRelation :> "position")
    @@ (RevType.personCastRelation :> "crt_id")

\* A fact of a relation revision; ids are stored as text.
Fact(type, subject, other) == ("subject_id" :> subject) @@ (FactField[type] :> other)

\* Subjects and characters with a row; the bulk fetchers leave the others out.
SubjectTable == (1 :> [id |-> 1, name |-> "S1"])
CharacterTable == (1 :> [id |-> 1, name |-> "C1"])

\* fetchSlimSubjectsByIDs, fetchSlimPersonsByIDs, fetchSlimCharactersByIDs:
\* id -> { name } for the ids that have a row.
NameTable(names) ==
  CASE names = "subjects" -> [i \in DOMAIN SubjectTable |-> [name |-> SubjectTable[i].name]]
    [] names = "characters" -> [i \in DOMAIN CharacterTable |-> [name |-> CharacterTable[i].name]]
    [] names = "persons" -> [i \in DOMAIN persons |-> [name |-> persons[i].name]]
    [] names = "none" -> EmptyMap

fetchSlimByIDs(names, ids) ==
  [i \in {x.n : x \in {y \in ids : ~y.nan}} \cap DOMAIN NameTable(names) |->
     NameTable(names)[i]]

\* ({ subject_id: subjectId }) => ...: a missing property is undefined.
Property(obj, k) == IF k \in DOMAIN obj THEN obj[k] ELSE Undefined

\* table[+id]?.name || ''
NameOrEmpty(table, num) ==
  IF ~num.nan /\ num.n \in DOMAIN table THEN table[num.n].name ELSE ""

\* Object.values(revContent).map(...): one item per fact.
RelatedData(route, values, subjects, related) ==
  [i \in 1..Len(values) |->
     LET subjectId == ToNumber(Property(values[i], "subject_id"))
         other == ToNumber(Property(values[i], route.field))
         item == ("subjectId" :> subjectId)
                   @@ ("subjectName" :> [name |-> NameOrEmpty(subjects, subjectId)])
                   @@ (route.key :> other)
     IN IF route.names = "none"
          THEN item
          ELSE item @@ (route.nameKey :> [name |-> NameOrEmpty(related, other)])]

\* where revMid = revisionID
FindRevisionByMid(revisionID) == {r \in revHistory : r.revMid = revisionID}

\* where revId = revisionID, limit 1
FindRevision(revisionID) == {r \in revHistory : r.revId = revisionID}

\* A revision-detail request arrives.
DetailStart ==
  /\ rpc = "idle"
  /\ \E route \in DetailRoutes, id \in {"0", "1", "2", "3", "4", "abc"} :
       rreq' = [kind |-> "detail", route |-> route,
                raw |-> [revisionID |-> id], params |-> EmptyMap]
  /\ rpc' = "validate"
  /\ UNCHANGED <<storeVars, txVars, rloc, rresp>>

\* params: { revisionID: t.Integer({ minimum: 1 }) }
DetailValidate ==
  /\ rpc = "validate"
  /\ rreq.kind = "detail"
  /\ IF /\ rreq.raw.revisionID \in DOMAIN IntegerText
        /\ IntegerText[rreq.raw.revisionID] >= MinId
       THEN /\ rreq' = [rreq EXCEPT !.params = Coerce(rreq.raw)]
            /\ rpc' = "findRev"
            /\ UNCHANGED rresp
       ELSE /\ rresp' = Failed(ValidationError("schema"))
            /\ rpc' = "failed"
            /\ UNCHANGED rreq
  /\ UNCHANGED <<storeVars, txVars, rloc>>

\* The chii_rev_history lookup and the not-found check.
DetailFindRev ==
  /\ rpc = "findRev"
  /\ LET revisionID == rreq.params.revisionID.n
         found == FindRevision(revisionID)
     IN IF found = {}
          THEN /\ rresp' = Failed(NotFoundError(<<"revision", revisionID>>))
               /\ rpc' = "failed"
               /\ UNCHANGED rloc
          ELSE /\ rloc' = [r |-> CHOOSE r \in found : TRUE]
               /\ rpc' = "findText"
               /\ UNCHANGED rresp
  /\ UNCHANGED <<storeVars, txVars, rreq>>

\* The chii_rev_text lookup and the not-found check.
DetailFindText ==
  /\ rpc = "findText"
  /\ IF rloc.r.revTextId \notin DOMAIN revText
       THEN /\ rresp' = Failed(NotFoundError(<<"RevText", rloc.r.revTextId>>))
            /\ rpc' = "failed"
            /\ UNCHANGED rloc
       ELSE /\ rloc' = rloc @@ [revText |-> [revTextId |-> rloc.r.revTextId,
                                             revText |-> revText[rloc.r.revTextId]]]
            /\ rpc' = "decode"
            /\ UNCHANGED rresp
  /\ UNCHANGED <<storeVars, txVars, rreq>>

\* deserialize, revContent = revRecord[revisionID], and Object.values of it,
\* which throws a TypeError when revContent is undefined.
DetailDecode ==
  /\ rpc = "decode"
  /\ LET revRecord == deserialize(rloc.revText.revText)
         k == IdText(rreq.params.revisionID.n)
     IN IF k \notin DOMAIN revRecord
          THEN /\ rresp' = Failed(TypeError("Object.values"))
               /\ rpc' = "failed"
               /\ UNCHANGED rloc
          ELSE /\ rloc' = rloc @@ [values |-> revRecord[k]]
               /\ rpc' = "subjects"
               /\ UNCHANGED rresp
  /\ UNCHANGED <<storeVars, txVars, rreq>>

\* fetchSlimSubjectsByIDs; a handler without a second fetcher maps and returns.
DetailSubjects ==
  /\ rpc = "subjects"
  /\ LET subjects == fetchSlimByIDs("subjects",
                       {ToNumber(Property(rloc.values[i], "subject_id")) :
                          i \in 1..Len(rloc.values)})
     IN /\ rloc' = rloc @@ [subjects |-> subjects]
        /\ IF rreq.route.names = "none"
             THEN /\ rresp' = Ok(RelatedData(rreq.route, rloc.values, subjects, EmptyMap))
                  /\ rpc' = "done"
             ELSE /\ rpc' = "related"
                  /\ UNCHANGED rresp
  /\ UNCHANGED <<storeVars, txVars, rreq>>

\* fetchSlimPersonsByIDs or fetchSlimCharactersByIDs, the mapping, the response.
DetailRelated ==
  /\ rpc = "related"
  /\ LET related == fetchSlimByIDs(rreq.route.names,
                      {ToNumber(Property(rloc.values[i], rreq.route.field)) :
                         i \in 1..Len(rloc.values)})
     IN /\ rloc' = rloc @@ [related |-> related]
        /\ rresp' = Ok(RelatedData(rreq.route, rloc.values, rloc.subjects, related))
  /\ rpc' = "done"
  /\ UNCHANGED <<storeVars, txVars, rreq>>

Detail ==
  \/ DetailStart
  \/ DetailValidate
  \/ DetailFindRev
  \/ DetailFindText
  \/ DetailDecode
  \/ DetailSubjects
  \/ DetailRelated

(***************************************************************************)
(* GET /persons/:personID (getPersonWikiInfo)                              *)
(***************************************************************************)

\* A person wiki-info request arrives.
WikiStart ==
  /\ rpc = "idle"
  /\ \E id \in {"0", "1", "2"} :
       rreq' = [kind |-> "wiki", raw |-> [personID |-> id], params |-> EmptyMap]
  /\ rpc' = "validate"
  /\ UNCHANGED <<storeVars, txVars, rloc, rresp>>

\* params: { personID: t.Integer({ minimum: 1 }) }
WikiValidate ==
  /\ rpc = "validate"
  /\ rreq.kind = "wiki"
  /\ IF /\ rreq.raw.personID \in DOMAIN IntegerText
        /\ IntegerText[rreq.raw.personID] >= MinId
       THEN /\ rreq' = [rreq EXCEPT !.params = Coerce(rreq.raw)]
            /\ rpc' = "find"
            /\ UNCHANGED rresp
       ELSE /\ rresp' = Failed(ValidationError("schema"))
            /\ rpc' = "failed"
            /\ UNCHANGED rreq
  /\ UNCHANGED <<storeVars, txVars, rloc>>

\* PersonRepo.findOneBy({ id: personID, redirect: 0 }), the not-found and
\* lock checks, and the response.
WikiRespond ==
  /\ rpc = "find"
  /\ LET personID == rreq.params.personID.n
         q == FindOneBy([id |-> personID, redirect |-> 0])
     IN /\ rloc' = [p |-> q]
        /\ IF q = NoPerson
             THEN /\ rresp' = Failed(NotFoundError(<<"person", personID>>))
                  /\ rpc' = "failed"
             ELSE IF q.lock # 0
               THEN /\ rresp' = Failed(NotAllowedError("edit a locked person"))
                    /\ rpc' = "failed"
               ELSE /\ rresp' = Ok([id |-> q.id, name |-> q.name, infobox |-> q.infobox,
                                    summary |-> q.summary, typeID |-> q.type])
                    /\ rpc' = "done"
  /\ UNCHANGED <<storeVars, txVars, rreq>>

Wiki == WikiStart \/ WikiValidate \/ WikiRespond

(***************************************************************************)
(* Initial state and specifications.                                       *)
(***************************************************************************)
PersonRow(lock, redirect) ==
  [id |-> 1, name |-> "A", infobox |-> "A", summary |-> "A",
   lock |-> lock, redirect |-> redirect, img |-> "img", type |-> 1]

InitEdit ==
  /\ \E lock \in {0, 1}, redirect \in {0, 1} :
       persons = (1 :> PersonRow(lock, redirect))
  /\ revHistory = {}
  /\ revText = EmptyMap
  /\ nextRevId = 1
  /\ nextTextId = 1
  /\ rowLock = [i \in {1} |-> NoOwner]
  /\ pc = [e \in Editors |-> "idle"]
  /\ req = [e \in Editors |-> NoReq]
  /\ p = [e \in Editors |-> NoPerson]
  /\ snapshot = [e \in Editors |-> NoPerson]
  /\ txWrite = [e \in Editors |-> EmptyMap]
  /\ txRev = [e \in Editors |-> NoRev]
  /\ err = [e \in Editors |-> NoError]
  /\ nextReq = 1
  /\ persisted = {}
  /\ rpc = "idle"
  /\ rreq = NoRequest
  /\ rloc = EmptyMap
  /\ rresp = NoResponse

Init == InitEdit

\* Two editors, each request carrying at most one expected and one edited field.
Next == \E e \in Editors : Patch(e, SmallEdits)

Spec == Init /\ [][Next]_vars

\* One editor, its requests carrying any expected and edited fields.
NextSolo == Patch(1, PartialEdits)

SpecSolo == Init /\ [][NextSolo]_vars

\* The revisions the other edit paths commit while history summaries are read.
HistoryEdits ==
  [mid : {1, 2},
   type : {RevType.characterSubjectRelation, RevType.characterCastRelation,
           RevType.personSubjectRelation, RevType.personCastRelation},
   creator : {1, 2}, keyed : {TRUE}, facts : {<<>>}]

InitHistory == Init /\ persons[1].lock = 0 /\ persons[1].redirect = 0

NextHistory == History \/ RFinish \/ ExternalCommit(HistoryEdits)

SpecHistory == InitHistory /\ [][NextHistory]_vars

\* The revisions committed while revision details are read: of each relation
\* type, with no fact, or with a fact whose subject and related entity have a
\* row and one whose have none, or with a blob that has no entry for the
\* revision.
DetailEdits ==
  UNION {[mid : {1, 2}, type : {ty}, creator : {1}, keyed : BOOLEAN,
          facts : {<<>>, <<Fact(ty, "1", "1"), Fact(ty, "2", "2")>>}] :
           ty \in {RevType.characterSubjectRelation, RevType.characterCastRelation,
                   RevType.personSubjectRelation, RevType.personCastRelation}}

NextDetail == Detail \/ RFinish \/ ExternalCommit(DetailEdits)

SpecDetail == InitHistory /\ [][NextDetail]_vars

\* Every read-only route, on a person with any lock and redirect flags.
ReadEdits ==
  [mid : {1}, type : {RevType.characterSubjectRelation}, creator : {2},
   keyed : {TRUE}, facts : {<<Fact(RevType.characterSubjectRelation, "1", "1")>>}]

NextRead == Wiki \/ History \/ Detail \/ RFinish \/ ExternalCommit(ReadEdits)

SpecRead == Init /\ [][NextRead]_vars

(***************************************************************************)
(* Properties of the PATCH handler.                                        *)
(***************************************************************************)
StoredRow(e) == persons[req[e].params.personID]

RevisionsOf(k) ==
  {r \in revHistory : r.revType = RevType.personEdit /\ r.revEditSummary = k}

\* C1 (as claimed): two PATCH requests on one person are serialized, so from
\* the moment a request's expected-vs-current check has passed until the
\* request commits, the values it expects are still the values stored: no
\* other request's update lands in between.
C1_NoLostUpdate ==
  \A e \in Editors :
    pc[e] \in {"mutate", "save", "revision", "commit"}
      => \A f \in DOMAIN req[e].body.expectedRevision :
           req[e].body.expectedRevision[f] = StoredRow(e)[f]

\* C2: a personEdit revision row of a request exists exactly when that
\* request's update of the person row is committed.
C2_RevisionIffPersisted ==
  \A k \in 1..(nextReq - 1) : (RevisionsOf(k) # {}) <=> (k \in persisted)

\* C2's case: one request was rolled back after its save, because
\* createRevision failed, while another request has committed.
C2_Witness ==
  \E e \in Editors :
    /\ pc[e] = "failed"
    /\ err[e] = DbError("createRevision")
    /\ p[e] # snapshot[e]
    /\ persisted # {}
    /\ req[e].id \notin persisted

PreSaveErrorKinds ==
  {"NotAllowedError", "NotFoundError", "LockedError", "WikiChangedError"}

\* C3: a request that fails for lack of permission, a missing, locked or
\* redirected person or an expected-revision mismatch fails before its
\* transaction has written anything, the failing step changes neither the
\* person table nor the revision tables, and no revision row and no
\* committed update of that request exists.
C3_FailureLeavesNoTrace ==
  [][\A e \in Editors :
       (pc[e] # "failed" /\ pc'[e] = "failed" /\ err'[e].kind \in PreSaveErrorKinds)
         => /\ persons' = persons
            /\ revHistory' = revHistory
            /\ revText' = revText
            /\ txWrite[e] = EmptyMap
            /\ txRev[e] = NoRev
            /\ \A i \in DOMAIN rowLock : rowLock[i] # e
            /\ req[e].id \notin persisted'
            /\ RevisionsOf(req[e].id)' = {}]_vars

\* C3's case: a request has failed on its expected revision after another
\* request's edit was committed.
C3_Witness ==
  \E e \in Editors :
    /\ pc[e] = "failed"
    /\ err[e].kind = "WikiChangedError"
    /\ persisted # {}
    /\ revHistory # {}

HistoryDone == rreq.kind = "history" /\ rpc = "done"

\* The revisions of the request's target whose type is in the route's tag set.
Matching(target) ==
  {r \in revHistory : r.revMid = target /\ r.revType \in rreq.route.revTypes}

\* The number of matching revisions newer than r.
Rank(r, target) == Cardinality({q \in Matching(target) : q.revId > r.revId})

PageLength(n, limit, offset) == Min(limit, Max(0, n - offset))

\* C5 (as claimed): the response's total and the length of its data belong to
\* one number N of matching revisions, len(data) = min(limit, max(0, N - offset))
\* with N = total, also when revisions are committed while the query runs.
C5_TotalAndPageAgree ==
  HistoryDone =>
    Len(rresp.body.data) = PageLength(rresp.body.total, rloc.limit, rloc.offset)

\* C5 (amended): total is the number of matching revisions when the count
\* query runs; len(data) is min(limit, max(0, M - offset)) for the number M of
\* matching revisions when the page query runs, whatever limit and offset;
\* and when no matching revision has been committed since the count, the two
\* agree: len(data) = min(limit, max(0, total - offset)).
C5_CountThenPage ==
  /\ [][(rpc = "count" /\ rpc' = "select") =>
          rloc'.count = Cardinality(Matching(rloc'.targetId))]_vars
  /\ [][(rpc = "select" /\ rpc' = "users") =>
          Len(rloc'.history) =
            PageLength(Cardinality(Matching(rloc.targetId)), rloc.limit, rloc.offset)]_vars
  /\ [][(rpc = "users" /\ rpc' = "done") =>
          /\ rresp'.kind = "ok"
          /\ rresp'.body.total = rloc.count
          /\ Len(rresp'.body.data) = Len(rloc.history)]_vars
  /\ [](HistoryDone =>
          /\ rresp.body.total <= Cardinality(Matching(rloc.targetId))
          /\ Len(rresp.body.data) <= rloc.limit
          /\ rresp.body.total = Cardinality(Matching(rloc.targetId)) =>
               Len(rresp.body.data) =
                 PageLength(rresp.body.total, rloc.limit, rloc.offset))

\* C5's case: the offset exceeds the number of matching revisions, which is
\* not zero: data is empty and total is that number.
C5_Witness ==
  /\ HistoryDone
  /\ rresp.body.total >= 1
  /\ rresp.body.total = Cardinality(Matching(rloc.targetId))
  /\ rloc.offset > rresp.body.total
  /\ rresp.body.data = <<>>

\* C6: the page read is strictly descending by revision id and holds exactly
\* the matching revisions at positions offset .. offset+limit-1 of the
\* descending list; the response lists them in that order; and the page at
\* offset and the page at offset+limit of one store neither skip nor repeat a
\* revision.
C6_DescendingPage ==
  /\ [][(rpc = "select" /\ rpc' = "users") =>
          LET h == rloc'.history IN
            /\ \A i \in 1..Len(h) : h[i] \in Matching(rloc.targetId)
            /\ \A i \in 1..(Len(h) - 1) : h[i].revId > h[i + 1].revId
            /\ {h[i].revId : i \in 1..Len(h)} =
                 {r.revId : r \in {q \in Matching(rloc.targetId) :
                    /\ Rank(q, rloc.targetId) >= rloc.offset
                    /\ Rank(q, rloc.targetId) <= rloc.offset + rloc.limit - 1}}]_vars
  /\ [](HistoryDone =>
          LET data == rresp.body.data IN
            /\ Len(data) = Len(rloc.history)
            /\ \A i \in 1..Len(data) : data[i].id = rloc.history[i].revId
            /\ \A i \in 1..(Len(data) - 1) : data[i].id > data[i + 1].id)
  /\ [](HistoryDone =>
          LET all == OrderBy(WhereTarget(revHistory, rloc.targetId, rreq.route.revTypes)) IN
            OffsetLimit(all, rloc.offset, rloc.limit)
                \o OffsetLimit(all, rloc.offset + rloc.limit, rloc.limit)
              = OffsetLimit(all, rloc.offset, 2 * rloc.limit))

\* C6's case: a page of two revisions, the newer first.
C6_Witness ==
  /\ HistoryDone
  /\ Len(rresp.body.data) = 2
  /\ rresp.body.data[1].id > rresp.body.data[2].id

\* C7: the query succeeds once its request is valid, and each entry's
\* username is the looked-up user's when the lookup result holds the editor,
\* and the ghost user's name for that editor id when it does not.
C7_GhostUsername ==
  /\ (rreq.kind = "history" /\ rpc = "failed") => rresp.error.kind = "ValidationError"
  /\ HistoryDone =>
       /\ rresp.kind = "ok"
       /\ \A i \in 1..Len(rresp.body.data) :
            LET creator == rloc.history[i].revCreator
                username == rresp.body.data[i].creator.username
            IN /\ creator \in DOMAIN rloc.users => username = UserTable[creator].username
               /\ creator \notin DOMAIN rloc.users => username = GhostNames[creator]
               /\ creator \in DOMAIN rloc.users <=> creator \in DOMAIN UserTable

\* C7's case: a page with an entry of a user without a record and an entry of
\* a user with one.
C7_Witness ==
  /\ HistoryDone
  /\ \E i, j \in 1..Len(rresp.body.data) :
       /\ rloc.history[i].revCreator \notin DOMAIN rloc.users
       /\ rresp.body.data[i].creator.username = "ghost-2"
       /\ rloc.history[j].revCreator \in DOMAIN rloc.users

\* The ids sent that are no positive integer.
NotPositiveInteger == {"-1", "0", "abc", "1.5"}

\* C9: a history query whose target id is zero, negative or no integer fails
\* with the schema's validation error and reads nothing from the store.
C9_TargetIdValidated ==
  (rreq.kind = "history" /\ rreq.raw[rreq.route.idName] \in NotPositiveInteger) =>
    /\ rpc \in {"validate", "failed"}
    /\ rloc = EmptyMap
    /\ rpc = "failed" => rresp = Failed(ValidationError("schema"))

\* C9's case: the query for target id 0 has failed.
C9_Witness ==
  /\ rreq.kind = "history"
  /\ rreq.raw[rreq.route.idName] = "0"
  /\ rpc = "failed"
  /\ rresp.error.kind = "ValidationError"

\* A revision-detail request whose id passed the schema is at its lookup.
DetailLookup == rreq.kind = "detail" /\ rpc = "findRev"

\* C8: the lookup of any of the four revision-detail routes, when no row of
\* the revision store has the requested revision id, fails with NotFound
\* "revision <id>", and only then; the failed request carries no data and
\* has read no blob.
C8_MissingRevisionNotFound ==
  /\ [][(DetailLookup /\ rpc' # rpc) =>
          LET revisionID == rreq.params.revisionID.n
          IN ((\A r \in revHistory : r.revId # revisionID)
                <=> (/\ rpc' = "failed"
                     /\ rresp' = Failed(NotFoundError(<<"revision", revisionID>>))))]_vars
  /\ []((rreq.kind = "detail" /\ rpc = "failed") =>
          /\ "body" \notin DOMAIN rresp
          /\ rresp.error.kind = "NotFoundError" => rloc = EmptyMap)

\* C8's case: the store has a revision, of target 2, and the lookup of
\* revision id 2, which has no row, has failed with NotFound "revision 2".
C8_Witness ==
  /\ rreq.kind = "detail"
  /\ rpc = "failed"
  /\ rresp = Failed(NotFoundError(<<"revision", 2>>))
  /\ \E r \in revHistory : r.revMid = 2
  /\ \A r \in revHistory : r.revId # 2

\* The errors of a permission or lock-state violation.
LockErrors == {"LockedError", "NotAllowedError"}

\* A read-only request has been answered.
ReadAnswered == rreq.kind \in {"wiki", "history", "detail"} /\ rpc \in {"done", "failed"}

\* C10 as stated: no read-only request fails with Locked or NotAllowed,
\* whatever the lock and redirect flags of the person.
C10_ReadsNeverLockErrors ==
  (ReadAnswered /\ rresp.kind = "error") => rresp.error.kind \notin LockErrors

\* C10: no history-summary or revision-detail request fails with Locked or
\* NotAllowed whatever the lock and redirect flags; the person wiki-info
\* request never fails with Locked, and it fails with NotAllowed "edit a
\* locked person" exactly when its person exists, is no redirect and is
\* locked, a redirected or missing person giving NotFound.
C10_OnlyWikiInfoNotAllowed ==
  ReadAnswered =>
    /\ (rreq.kind \in {"history", "detail"} /\ rresp.kind = "error") =>
         rresp.error.kind \notin LockErrors
    /\ (rreq.kind = "wiki" /\ rresp.kind = "error") => rresp.error.kind # "LockedError"
    /\ (rreq.kind = "wiki" /\ "personID" \in DOMAIN rreq.params) =>
         LET personID == rreq.params.personID.n
             exists == personID \in DOMAIN persons
         IN /\ rresp = Failed(NotAllowedError("edit a locked person"))
                 <=> (exists /\ persons[personID].redirect = 0 /\ persons[personID].lock # 0)
            /\ rresp = Failed(NotFoundError(<<"person", personID>>))
                 <=> (~exists \/ persons[personID].redirect # 0)

\* C10's case: the wiki-info request of a locked person that is no redirect
\* has failed with NotAllowed.
C10_Witness ==
  /\ rreq.kind = "wiki"
  /\ rpc = "failed"
  /\ persons[1].lock = 1
  /\ persons[1].redirect = 0
  /\ rresp.error.kind = "NotAllowedError"

(***************************************************************************)
(* Order of the PATCH handler's steps.                                     *)
(***************************************************************************)

\* The place of each step in the handler's text.
Position ==
  [s \in {"auth", "load", "lock", "match", "mutate", "save", "revision",
          "commit", "done"} |->
     CASE s = "auth" -> 1 [] s = "load" -> 2 [] s = "lock" -> 3
       [] s = "match" -> 4 [] s = "mutate" -> 5 [] s = "save" -> 6
       [] s = "revision" -> 7 [] s = "commit" -> 8 [] s = "done" -> 9]

\* The step whose error is `error`.
FailedAt(error) ==
  CASE error.kind = "NotAllowedError" -> 1
    [] error.kind = "NotFoundError" -> 2
    [] error.kind = "LockedError" -> 3
    [] error.kind = "WikiChangedError" -> 4
    [] error = DbError("save") -> 6
    [] error = DbError("createRevision") -> 7

\* The step request e is at, or the step it failed at: every step before it
\* has been performed and has succeeded, and no later step has been performed.
Reached(e) == IF pc[e] = "failed" THEN FailedAt(err[e]) ELSE Position[pc[e]]

InFlight(e) == pc[e] # "idle"

\* The loaded entity with the request's input applied.
Merged(e) ==
  [f \in DOMAIN snapshot[e] |->
     IF f \in Fields /\ f \in DOMAIN req[e].body.person
       THEN req[e].body.person[f] ELSE snapshot[e][f]]

\* C11 as stated: the permission check and the lock/redirect check are both
\* completed before the current entity is loaded, so no request holds a
\* loaded entity while its lock/redirect check is still to be made.
C11_ChecksBeforeLoad ==
  \A e \in Editors :
    (InFlight(e) /\ p[e] # NoPerson) => (Reached(e) > 1 /\ pc[e] # "lock")

\* C11: a PATCH request performs its steps in the order permission check,
\* load, lock/redirect check, expected-revision check, mutation, save,
\* createRevision, commit; each step is performed only after every earlier
\* step has succeeded: the entity is loaded only with the permission
\* granted, the lock/redirect check is made on the loaded entity, the
\* expected-revision check is passed before the mutation is applied, and
\* nothing is written before the mutation, no revision before the save.
C11_StepOrder ==
  /\ [][\A e \in Editors :
          (pc'[e] # pc[e] /\ pc[e] \notin {"idle", "done", "failed"})
            => \/ pc'[e] = "failed" /\ FailedAt(err'[e]) = Position[pc[e]]
               \/ Position[pc'[e]] = Position[pc[e]] + 1]_vars
  /\ [](\A e \in Editors :
          InFlight(e) =>
            /\ Reached(e) >= 2 => req[e].auth.permission.mono_edit
            /\ Reached(e) >= 3 <=> p[e] # NoPerson
            /\ Reached(e) >= 4 => snapshot[e].lock = 0 /\ snapshot[e].redirect = 0
            /\ Reached(e) >= 5 =>
                 \A f \in DOMAIN req[e].body.expectedRevision :
                   req[e].body.expectedRevision[f] = snapshot[e][f]
            /\ Reached(e) <= 5 => p[e] = snapshot[e]
            /\ Reached(e) >= 6 => p[e] = Merged(e)
            /\ Reached(e) <= 6 => txWrite[e] = EmptyMap
            /\ txRev[e] # NoRev <=> pc[e] = "commit"
            /\ req[e].id \in persisted <=> pc[e] = "done")

\* C11's case: a request with the permission has loaded a redirected person
\* and has then failed the lock/redirect check.
C11_Witness ==
  \E e \in Editors :
    /\ pc[e] = "failed"
    /\ err[e] = LockedError
    /\ req[e].auth.permission.mono_edit
    /\ p[e].redirect = 1

(***************************************************************************)
(* Properties of the revision-detail routes.                               *)
(***************************************************************************)

\* A revision-detail request has been answered after its lookups found both
\* the history row and the text blob, the revision being of the relation the
\* route decodes.
DetailAnswered ==
  /\ rreq.kind = "detail"
  /\ rpc \in {"done", "failed"}
  /\ "revText" \in DOMAIN rloc
  /\ FactField[rloc.r.revType] = rreq.route.field

\* The facts the stored blob holds for the requested revision id.
StoredFacts ==
  LET record == revText[rloc.r.revTextId][2]
      k == IdText(rloc.r.revId)
  IN IF k \in DOMAIN record THEN record[k] ELSE <<>>

\* The name the store holds for an id of the route's related entity kind.
StoredName(names, id) ==
  CASE names = "subjects" -> IF id \in DOMAIN SubjectTable THEN SubjectTable[id].name ELSE ""
    [] names = "characters" -> IF id \in DOMAIN CharacterTable THEN CharacterTable[id].name ELSE ""
    [] names = "persons" -> IF id \in DOMAIN persons THEN persons[id].name ELSE ""

\* The response has one item per stored fact, in order, with the fact's
\* subject id and related id, and with each name that of the store or "".
FactsPreserved ==
  /\ rresp.kind = "ok"
  /\ Len(rresp.body) = Len(StoredFacts)
  /\ \A i \in 1..Len(StoredFacts) :
       LET fact == StoredFacts[i]
           item == rresp.body[i]
           subject == IntegerText[fact["subject_id"]]
           other == IntegerText[fact[rreq.route.field]]
       IN /\ item["subjectId"] = [nan |-> FALSE, n |-> subject]
          /\ item["subjectName"].name = StoredName("subjects", subject)
          /\ item[rreq.route.key] = [nan |-> FALSE, n |-> other]
          /\ rreq.route.names # "none" =>
               item[rreq.route.nameKey].name = StoredName(rreq.route.names, other)

\* C12 (as claimed): a revision-detail lookup whose history row and text blob
\* both exist never fails; its response has exactly one item per fact of the
\* blob's entry for the revision id, subject id and related id preserved and
\* each missing name replaced by "", also when the blob has no entry for
\* the revision id (no fact, so no item).
C12_MissingDataDegrades == DetailAnswered => FactsPreserved

\* The same for the blobs that have an entry for the revision id.
C12_EntryDecoded ==
  (DetailAnswered /\ IdText(rloc.r.revId) \in DOMAIN revText[rloc.r.revTextId][2])
    => FactsPreserved

\* A lookup has answered a revision with a fact whose subject and related
\* entity have no row.
C12_EntryDecodedWitness ==
  /\ DetailAnswered
  /\ rreq.route.names = "characters"
  /\ rresp.kind = "ok"
  /\ Len(rresp.body) = 2
  /\ rresp.body[2]["characterName"].name = ""
  /\ rresp.body[1]["characterName"].name = "C1"

(***************************************************************************)
(* The person row and its newest revision.                                 *)
(***************************************************************************)

\* The committed personEdit revisions of person id.
PersonEdits(id) ==
  {r \in revHistory : r.revType = RevType.personEdit /\ r.revMid = id}

\* The rev recorded by the newest of them.
NewestRev(id) ==
  LET newest == CHOOSE r \in PersonEdits(id) : \A q \in PersonEdits(id) : q.revId <= r.revId
  IN revText[newest.revTextId][2]

\* The newest personEdit revision of person id records the row as stored.
NewestRevIsRow(id) ==
  PersonEdits(id) # {} =>
    /\ NewestRev(id).crt_name = persons[id].name
    /\ NewestRev(id).crt_infobox = persons[id].infobox
    /\ NewestRev(id).crt_summary = persons[id].summary

\* C13 (as claimed): whenever a PATCH request commits, also when requests
\* interleave, the newest personEdit revision of its person records the
\* name, infobox and summary then stored in the person row, and the commit
\* changed only the fields present in the request's input: a field of the
\* input is stored as sent, an omitted field is stored as it was.
C13_NewestRevisionIsRow ==
  [][\A e \in Editors :
       (pc[e] = "commit" /\ pc'[e] = "done")
         => LET id == req[e].params.personID
                input == req[e].body.person
            IN /\ NewestRevIsRow(id)'
               /\ \A f \in Fields :
                    /\ f \in DOMAIN input => persons'[id][f] = input[f]
                    /\ f \notin DOMAIN input => persons'[id][f] = persons[id][f]]_vars

\* A request that edits two fields and omits the third has committed after
\* an earlier committed edit.
C13_SoloWitness ==
  /\ pc[1] = "done"
  /\ Cardinality(DOMAIN req[1].body.person) = 2
  /\ Cardinality(PersonEdits(1)) = 2
  /\ \E f \in Fields \ DOMAIN req[1].body.person : persons[1][f] = "B"

=============================================================================
